---- MODULE Spec2Model ----
(***************************************************************************)
(* Model of the ThingsBoard provisioning API implementation                *)
(* (src/src/Provision.h, class Provision).                                 *)
(*                                                                         *)
(* The class owns one Provision_Callback (m_provision_callback, the        *)
(* "correlation slot") and three transport callbacks.  Every public member *)
(* function runs to completion; one action of the model is one call of one *)
(* member function, including every collaborator call it makes.            *)
(*                                                                         *)
(* A char const * is modelled as a sequence of length 0 (the null pointer) *)
(* or 1 (a pointer to that text), so that null and "" stay different.      *)
(* A JSON document is a function from its keys to its values.              *)
(***************************************************************************)
EXTENDS Integers, Sequences, FiniteSets, TLC

VARIABLES
    m_provision_callback,          \* Provision.h:162, the correlation slot
    m_send_json_callback,          \* Provision.h:158
    m_subscribe_topic_callback,    \* Provision.h:159
    m_unsubscribe_topic_callback,  \* Provision.h:160
    last,       \* history: the member function called last, its argument,
                \*          the slot before it, its result and the collaborator
                \*          calls it made, in order
    reqs,       \* history: one entry per Provision_Request call made so far
    slot_req,   \* history: index in reqs of the request whose descriptor is
                \*          stored in m_provision_callback, 0 when none is
    subscribed  \* history: a subscribe call succeeded and no unsubscribe
                \*          call was made since

vars == << m_provision_callback, m_send_json_callback,
           m_subscribe_topic_callback, m_unsubscribe_topic_callback,
           last, reqs, slot_req, subscribed >>

---------------------------------------------------------------------------
(* Bounds of the model *)

NumHandlers == 2     \* distinct caller-supplied response handlers
MaxRequests == 2     \* Provision_Request calls in one behaviour

(* Program constants *)

PROV_RESPONSE_TOPIC == "/provision/response"
\* Faulty variant: the request is published on the response channel
PROV_REQUEST_TOPIC_Swapped == "/provision/response"

PROV_REQUEST_TOPIC == "/provision/request"
DEVICE_NAME_KEY == "deviceName"
PROV_DEVICE_KEY == "provisionDeviceKey"
PROV_DEVICE_SECRET_KEY == "provisionDeviceSecret"
PROV_CRED_TYPE_KEY == "credentialsType"
PROV_TOKEN == "token"
PROV_CRED_USERNAME == "username"
PROV_CRED_PASSWORD == "password"
PROV_CRED_CLIENT_ID == "clientId"
PROV_CRED_HASH == "hash"

\* StaticJsonDocument<JSON_OBJECT_SIZE(9)>: room for nine members
REQUEST_BUFFER_CAPACITY == 9

---------------------------------------------------------------------------
(* Values *)

NullPtr == << >>
Ptr(s) == << s >>

NoHandler == 0
Handlers == 1 .. NumHandlers

NoCallback == "unset"
Transports == {"mqtt"}

EmptyDoc == [k \in {} |-> NullPtr]

\* Parsed response documents the routing framework may deliver
ResponseDocs ==
    { [k \in {"status"} |-> Ptr("SUCCESS")],
      [k \in {"status"} |-> Ptr("FAILURE")] }

\* Helper::stringIsNullorEmpty
stringIsNullorEmpty(str) == str = NullPtr \/ str[1] = ""

\* A Provision_Callback: the response handler and the credential strings
MakeCallback(cb, key, secret, name, token, user, pass, client, hash, type) ==
    [ callback |-> cb,
      device_key |-> key,
      device_secret |-> secret,
      device_name |-> name,
      access_token |-> token,
      cred_username |-> user,
      cred_password |-> pass,
      cred_client_id |-> client,
      hash |-> hash,
      credentials_type |-> type ]

\* Provision_Callback(): no handler, no strings
DefaultCallback ==
    MakeCallback(NoHandler, NullPtr, NullPtr, NullPtr, NullPtr, NullPtr,
                 NullPtr, NullPtr, NullPtr, NullPtr)

\* Descriptors the caller submits in Spec: key and secret set, or one of
\* them null or empty
Descriptors ==
    { MakeCallback(h, ks[1], ks[2], Ptr("dev1"), NullPtr, NullPtr, NullPtr,
                   NullPtr, NullPtr, NullPtr) :
        h \in Handlers,
        ks \in { << Ptr("abc"), Ptr("xyz") >>,
                 << NullPtr, Ptr("xyz") >>, << Ptr(""), Ptr("xyz") >>,
                 << Ptr("abc"), NullPtr >>, << Ptr("abc"), Ptr("") >> } }

\* Descriptors of SpecBuild: every optional field null, empty or set
OptionalValues(v) == {NullPtr, Ptr(""), Ptr(v)}

AllDescriptors ==
    { MakeCallback(1, key, secret, name, token, user, pass, client, hash, type) :
        key \in {Ptr(""), Ptr("abc")},
        secret \in {NullPtr, Ptr("xyz")},
        name \in OptionalValues("dev1"),
        token \in OptionalValues("tok"),
        user \in OptionalValues("usr"),
        pass \in OptionalValues("pwd"),
        client \in OptionalValues("cid"),
        hash \in OptionalValues("h4sh"),
        type \in OptionalValues("X509_CERTIFICATE") }

---------------------------------------------------------------------------
(* Collaborator calls made during one member function call: the function  *)
(* called, the stored callback it was called through, its arguments, what  *)
(* it returned, and the slot at the moment of the call                     *)

Ev(fn, cb, topic, doc, h, ok, slot) ==
    [fn |-> fn, cb |-> cb, topic |-> topic, doc |-> doc, h |-> h, ok |-> ok,
     slot |-> slot]

\* m_subscribe_topic_callback.Call_Callback(topic)
SubscribeEv(topic, ok, slot) ==
    Ev("subscribe_topic", m_subscribe_topic_callback, topic, EmptyDoc,
       NoHandler, ok, slot)

\* m_unsubscribe_topic_callback.Call_Callback(topic)
UnsubscribeEv(topic, ok, slot) ==
    Ev("unsubscribe_topic", m_unsubscribe_topic_callback, topic, EmptyDoc,
       NoHandler, ok, slot)

\* m_send_json_callback.Call_Callback(topic, doc, size)
SendJsonEv(topic, doc, ok, slot) ==
    Ev("send_json", m_send_json_callback, topic, doc, NoHandler, ok, slot)

\* The caller's response handler h, run with the response document
HandlerEv(h, data, slot) ==
    Ev("provision_callback", NoCallback, "", data, h, TRUE, slot)

\* m_provision_callback.Call_Callback(data): the stored handler runs when
\* there is one, the default callback does nothing
Call_Provision_Callback(data) ==
    IF m_provision_callback.callback = NoHandler
    THEN << >>
    ELSE << HandlerEv(m_provision_callback.callback, data,
                      m_provision_callback) >>

NoRet == << >>
Ret(b) == << b >>

---------------------------------------------------------------------------
(* The request payload, Provision_Request lines 55-89 *)

\* request_buffer[key] = value: replaces the member, or adds it while the
\* document has room
JsonSet(doc, key, value) ==
    IF key \in DOMAIN doc
    THEN [doc EXCEPT ![key] = value]
    ELSE IF Cardinality(DOMAIN doc) >= REQUEST_BUFFER_CAPACITY
         THEN doc
         ELSE [k \in (DOMAIN doc) \cup {key} |->
                  IF k = key THEN value ELSE doc[k]]

\* Faulty variant: only a null pointer is left out, "" is sent
SetIfNotEmpty_NullOnly(doc, key, value) ==
    IF value # NullPtr THEN JsonSet(doc, key, value) ELSE doc

\* if (!Helper::stringIsNullorEmpty(value)) { request_buffer[key] = value; }
SetIfNotEmpty(doc, key, value) ==
    IF ~ stringIsNullorEmpty(value) THEN JsonSet(doc, key, value) ELSE doc

Request_Buffer(callback) ==
    LET b0 == EmptyDoc
        b1 == SetIfNotEmpty(b0, DEVICE_NAME_KEY, callback.device_name)
        b2 == SetIfNotEmpty(b1, PROV_TOKEN, callback.access_token)
        b3 == SetIfNotEmpty(b2, PROV_CRED_USERNAME, callback.cred_username)
        b4 == SetIfNotEmpty(b3, PROV_CRED_PASSWORD, callback.cred_password)
        b5 == SetIfNotEmpty(b4, PROV_CRED_CLIENT_ID, callback.cred_client_id)
        b6 == SetIfNotEmpty(b5, PROV_CRED_HASH, callback.hash)
        b7 == SetIfNotEmpty(b6, PROV_CRED_TYPE_KEY, callback.credentials_type)
        b8 == JsonSet(b7, PROV_DEVICE_KEY, callback.device_key)
        b9 == JsonSet(b8, PROV_DEVICE_SECRET_KEY, callback.device_secret)
    IN  b9

---------------------------------------------------------------------------
(* Member functions as functions of the current state.  Each yields the   *)
(* function's result, the slot it leaves, whether it assigned the          *)
(* descriptor to the slot, and the collaborator calls it made.  sub_ok,    *)
(* unsub_ok and pub_ok are what the transport callbacks return.            *)

\* Faulty variant: the descriptor is stored before the transport is asked
Provision_Subscribe_StoreFirst(callback, sub_ok) ==
    [ret |-> sub_ok, slot |-> callback, stored |-> TRUE,
     calls |-> << SubscribeEv(PROV_RESPONSE_TOPIC, sub_ok, callback) >>]

\* Faulty variant: a pending descriptor is not overwritten
Provision_Subscribe_KeepFirst(callback, sub_ok) ==
    IF ~ sub_ok
    THEN [ret |-> FALSE, slot |-> m_provision_callback, stored |-> FALSE,
          calls |-> << SubscribeEv(PROV_RESPONSE_TOPIC, sub_ok,
                                   m_provision_callback) >>]
    ELSE [ret |-> TRUE,
          slot |-> IF m_provision_callback.callback = NoHandler
                   THEN callback ELSE m_provision_callback,
          stored |-> TRUE,
          calls |-> << SubscribeEv(PROV_RESPONSE_TOPIC, sub_ok,
                                   m_provision_callback) >>]

\* Provision_Subscribe, lines 141-148
Provision_Subscribe(callback, sub_ok) ==
    IF ~ sub_ok
    THEN [ret |-> FALSE, slot |-> m_provision_callback, stored |-> FALSE,
          calls |-> << SubscribeEv(PROV_RESPONSE_TOPIC, sub_ok,
                                   m_provision_callback) >>]
    ELSE [ret |-> TRUE, slot |-> callback, stored |-> TRUE,
          calls |-> << SubscribeEv(PROV_RESPONSE_TOPIC, sub_ok,
                                   m_provision_callback) >>]

\* Faulty variant: the stored descriptor is kept
Provision_Unsubscribe_KeepsSlot(unsub_ok) ==
    [ret |-> unsub_ok, slot |-> m_provision_callback,
     calls |-> << UnsubscribeEv(PROV_RESPONSE_TOPIC, unsub_ok,
                                m_provision_callback) >>]

\* Faulty variant: the transport is called before the slot is reset
Provision_Unsubscribe_CallFirst(unsub_ok) ==
    [ret |-> unsub_ok, slot |-> DefaultCallback,
     calls |-> << UnsubscribeEv(PROV_RESPONSE_TOPIC, unsub_ok,
                                m_provision_callback) >>]

\* Faulty variant: the slot is reset only when the transport unsubscribed
Provision_Unsubscribe_KeepOnFailure(unsub_ok) ==
    [ret |-> unsub_ok,
     slot |-> IF unsub_ok THEN DefaultCallback ELSE m_provision_callback,
     calls |-> << UnsubscribeEv(PROV_RESPONSE_TOPIC, unsub_ok,
                                m_provision_callback) >>]

\* Provision_Unsubscribe, lines 153-156: the slot is reset, then the
\* transport is called
Provision_Unsubscribe(unsub_ok) ==
    [ret |-> unsub_ok, slot |-> DefaultCallback,
     calls |-> << UnsubscribeEv(PROV_RESPONSE_TOPIC, unsub_ok,
                                DefaultCallback) >>]

\* Faulty variant: the secret is not looked at
InvalidCredentials_KeyOnly(callback) ==
    stringIsNullorEmpty(callback.device_key)

\* The check of line 48
InvalidCredentials(callback) ==
    \/ stringIsNullorEmpty(callback.device_key)
    \/ stringIsNullorEmpty(callback.device_secret)

\* Faulty variant: the result of the publish is dropped
Provision_Request_Body_IgnorePublish(callback, sub_ok, pub_ok) ==
    IF InvalidCredentials(callback)
    THEN [ret |-> FALSE, slot |-> m_provision_callback, stored |-> FALSE,
          calls |-> << >>]
    ELSE LET sub == Provision_Subscribe(callback, sub_ok) IN
         IF ~ sub.ret
         THEN [ret |-> FALSE, slot |-> sub.slot, stored |-> sub.stored,
               calls |-> sub.calls]
         ELSE [ret |-> TRUE, slot |-> sub.slot, stored |-> sub.stored,
               calls |-> sub.calls \o
                   << SendJsonEv(PROV_REQUEST_TOPIC, Request_Buffer(callback),
                                 pub_ok, sub.slot) >>]

\* Faulty variant: a failed publish unsubscribes again
Provision_Request_Body_CleanupOnFail(callback, sub_ok, pub_ok) ==
    IF InvalidCredentials(callback)
    THEN [ret |-> FALSE, slot |-> m_provision_callback, stored |-> FALSE,
          calls |-> << >>]
    ELSE LET sub == Provision_Subscribe(callback, sub_ok) IN
         IF ~ sub.ret
         THEN [ret |-> FALSE, slot |-> sub.slot, stored |-> sub.stored,
               calls |-> sub.calls]
         ELSE LET send == SendJsonEv(PROV_REQUEST_TOPIC,
                                     Request_Buffer(callback), pub_ok, sub.slot)
                  unsub == Provision_Unsubscribe(TRUE)
              IN  IF pub_ok
                  THEN [ret |-> TRUE, slot |-> sub.slot, stored |-> TRUE,
                        calls |-> sub.calls \o << send >>]
                  ELSE [ret |-> FALSE, slot |-> unsub.slot, stored |-> FALSE,
                        calls |-> sub.calls \o << send >> \o unsub.calls]

\* Faulty variant: the request is published before the subscription
Provision_Request_Body_PublishFirst(callback, sub_ok, pub_ok) ==
    IF InvalidCredentials(callback)
    THEN [ret |-> FALSE, slot |-> m_provision_callback, stored |-> FALSE,
          calls |-> << >>]
    ELSE LET sub == Provision_Subscribe(callback, sub_ok)
             send == SendJsonEv(PROV_REQUEST_TOPIC, Request_Buffer(callback),
                                pub_ok, m_provision_callback)
         IN  [ret |-> pub_ok /\ sub.ret, slot |-> sub.slot,
              stored |-> sub.stored, calls |-> << send >> \o sub.calls]

\* Faulty variant: a request with invalid credentials clears the slot
Provision_Request_Body_RejectClears(callback, sub_ok, pub_ok) ==
    IF InvalidCredentials(callback)
    THEN [ret |-> FALSE, slot |-> DefaultCallback, stored |-> FALSE,
          calls |-> << >>]
    ELSE LET sub == Provision_Subscribe(callback, sub_ok) IN
         IF ~ sub.ret
         THEN [ret |-> FALSE, slot |-> sub.slot, stored |-> sub.stored,
               calls |-> sub.calls]
         ELSE [ret |-> pub_ok, slot |-> sub.slot, stored |-> sub.stored,
               calls |-> sub.calls \o
                   << SendJsonEv(PROV_REQUEST_TOPIC, Request_Buffer(callback),
                                 pub_ok, sub.slot) >>]

\* Provision_Request, lines 44-91
Provision_Request_Body(callback, sub_ok, pub_ok) ==
    IF InvalidCredentials(callback)
    THEN [ret |-> FALSE, slot |-> m_provision_callback, stored |-> FALSE,
          calls |-> << >>]
    ELSE LET sub == Provision_Subscribe(callback, sub_ok) IN
         IF ~ sub.ret
         THEN [ret |-> FALSE, slot |-> sub.slot, stored |-> sub.stored,
               calls |-> sub.calls]
         ELSE [ret |-> pub_ok, slot |-> sub.slot, stored |-> sub.stored,
               calls |-> sub.calls \o
                   << SendJsonEv(PROV_REQUEST_TOPIC, Request_Buffer(callback),
                                 pub_ok, sub.slot) >>]

\* Faulty variant: the slot is reset before the stored handler is called
Process_Json_Response_Body_UnsubFirst(data, unsub_ok) ==
    LET unsub == Provision_Unsubscribe(unsub_ok) IN
    [slot |-> unsub.slot, calls |-> unsub.calls]

\* Faulty variant: nothing is unsubscribed when no handler is stored
Process_Json_Response_Body_SkipWhenIdle(data, unsub_ok) ==
    LET unsub == Provision_Unsubscribe(unsub_ok) IN
    IF m_provision_callback.callback = NoHandler
    THEN [slot |-> m_provision_callback, calls |-> << >>]
    ELSE [slot |-> unsub.slot,
          calls |-> Call_Provision_Callback(data) \o unsub.calls]

\* Process_Json_Response, lines 101-106
Process_Json_Response_Body(data, unsub_ok) ==
    LET unsub == Provision_Unsubscribe(unsub_ok) IN
    [slot |-> unsub.slot,
     calls |-> Call_Provision_Callback(data) \o unsub.calls]

---------------------------------------------------------------------------
(* History *)

Called(op, arg, data, ret, calls) ==
    [op |-> op, arg |-> arg, data |-> data, ret |-> ret, calls |-> calls,
     pre |-> m_provision_callback, pre_req |-> slot_req]

\* reqs with the pending request, if any, told that another request was
\* submitted while it was pending
Rivalled(valid, stored) ==
    [i \in DOMAIN reqs |->
        IF i = slot_req
        THEN [reqs[i] EXCEPT !.rival_valid = @ \/ valid,
                             !.rival_stored = @ \/ stored]
        ELSE reqs[i]]

\* reqs with the handler invocations of a response dispatch counted
Answered(calls) ==
    [i \in DOMAIN reqs |->
        IF i = slot_req
        THEN [reqs[i] EXCEPT !.invoked =
                 @ + Cardinality({n \in DOMAIN calls :
                                     calls[n].fn = "provision_callback"})]
        ELSE reqs[i]]

\* The subscription after the collaborator calls of one member function
RECURSIVE SubscribedAfter(_, _)
SubscribedAfter(before, calls) ==
    IF calls = << >> THEN before
    ELSE LET c == Head(calls) IN
         SubscribedAfter(
             CASE c.fn = "subscribe_topic" -> (before \/ c.ok)
               [] c.fn = "unsubscribe_topic" -> FALSE
               [] OTHER -> before,
             Tail(calls))

\* Every transport callback was injected (Set_Client_Callbacks was called)
CallbacksSet ==
    /\ m_send_json_callback # NoCallback
    /\ m_subscribe_topic_callback # NoCallback
    /\ m_unsubscribe_topic_callback # NoCallback

---------------------------------------------------------------------------
(* The state after construction, lines 31 and 158-162 *)

Init ==
    /\ m_provision_callback = DefaultCallback
    /\ m_send_json_callback = NoCallback
    /\ m_subscribe_topic_callback = NoCallback
    /\ m_unsubscribe_topic_callback = NoCallback
    /\ last = [op |-> "Provision", arg |-> DefaultCallback, data |-> EmptyDoc,
               ret |-> NoRet, calls |-> << >>, pre |-> DefaultCallback,
               pre_req |-> 0]
    /\ reqs = << >>
    /\ slot_req = 0
    /\ subscribed = FALSE

---------------------------------------------------------------------------
(* Public member functions, one action each *)

\* Set_Client_Callbacks, lines 130-134
Set_Client_Callbacks(t) ==
    /\ m_send_json_callback' = t
    /\ m_subscribe_topic_callback' = t
    /\ m_unsubscribe_topic_callback' = t
    /\ last' = Called("Set_Client_Callbacks", DefaultCallback, EmptyDoc,
                      NoRet, << >>)
    /\ UNCHANGED << m_provision_callback, reqs, slot_req, subscribed >>

\* Provision_Request, lines 44-91
Provision_Request(callback, sub_ok, pub_ok) ==
    /\ CallbacksSet
    /\ Len(reqs) < MaxRequests
    /\ LET res == Provision_Request_Body(callback, sub_ok, pub_ok)
           valid == /\ ~ stringIsNullorEmpty(callback.device_key)
                    /\ ~ stringIsNullorEmpty(callback.device_secret)
       IN  /\ m_provision_callback' = res.slot
           /\ last' = Called("Provision_Request", callback, EmptyDoc,
                             Ret(res.ret), res.calls)
           /\ reqs' = Append(Rivalled(valid, res.stored),
                             [h |-> callback.callback,
                              stored |-> res.stored, ret |-> res.ret,
                              invoked |-> 0,
                              rival_valid |-> FALSE, rival_stored |-> FALSE])
           /\ slot_req' = IF res.stored THEN Len(reqs) + 1 ELSE slot_req
           /\ subscribed' = SubscribedAfter(subscribed, res.calls)
    /\ UNCHANGED << m_send_json_callback, m_subscribe_topic_callback,
                    m_unsubscribe_topic_callback >>

\* Process_Response, lines 97-99
Process_Response ==
    /\ last' = Called("Process_Response", DefaultCallback, EmptyDoc, NoRet, << >>)
    /\ UNCHANGED << m_provision_callback, m_send_json_callback,
                    m_subscribe_topic_callback, m_unsubscribe_topic_callback,
                    reqs, slot_req, subscribed >>

\* Process_Json_Response, lines 101-106
Process_Json_Response(data, unsub_ok) ==
    /\ CallbacksSet
    /\ LET res == Process_Json_Response_Body(data, unsub_ok)
       IN  /\ m_provision_callback' = res.slot
           /\ last' = Called("Process_Json_Response", DefaultCallback, data,
                             NoRet, res.calls)
           /\ reqs' = Answered(res.calls)
           /\ slot_req' = 0
           /\ subscribed' = SubscribedAfter(subscribed, res.calls)
    /\ UNCHANGED << m_send_json_callback, m_subscribe_topic_callback,
                    m_unsubscribe_topic_callback >>

\* Faulty variant: the result of the unsubscription is dropped
Unsubscribe_Body_DropResult(unsub_ok) ==
    [Provision_Unsubscribe(unsub_ok) EXCEPT !.ret = TRUE]

\* Unsubscribe, lines 112-114
Unsubscribe_Body(unsub_ok) == Provision_Unsubscribe(unsub_ok)

Unsubscribe(unsub_ok) ==
    /\ CallbacksSet
    /\ LET res == Unsubscribe_Body(unsub_ok)
       IN  /\ m_provision_callback' = res.slot
           /\ last' = Called("Unsubscribe", DefaultCallback, EmptyDoc,
                             Ret(res.ret), res.calls)
           /\ subscribed' = SubscribedAfter(subscribed, res.calls)
    /\ slot_req' = 0
    /\ UNCHANGED << m_send_json_callback, m_subscribe_topic_callback,
                    m_unsubscribe_topic_callback, reqs >>

\* Faulty variant: the topic is subscribed again after the unsubscription
Resubscribe_Topic_Body_Resubscribes(unsub_ok) ==
    LET unsub == Unsubscribe_Body(unsub_ok) IN
    [unsub EXCEPT !.calls =
        @ \o << SubscribeEv(PROV_RESPONSE_TOPIC, TRUE, unsub.slot) >>]

\* Resubscribe_Topic, lines 116-118
Resubscribe_Topic_Body(unsub_ok) == Unsubscribe_Body(unsub_ok)

Resubscribe_Topic(unsub_ok) ==
    /\ CallbacksSet
    /\ LET res == Resubscribe_Topic_Body(unsub_ok)
       IN  /\ m_provision_callback' = res.slot
           /\ last' = Called("Resubscribe_Topic", DefaultCallback, EmptyDoc,
                             Ret(res.ret), res.calls)
           /\ subscribed' = SubscribedAfter(subscribed, res.calls)
    /\ slot_req' = 0
    /\ UNCHANGED << m_send_json_callback, m_subscribe_topic_callback,
                    m_unsubscribe_topic_callback, reqs >>

\* loop, lines 121-123
loop ==
    /\ last' = Called("loop", DefaultCallback, EmptyDoc, NoRet, << >>)
    /\ UNCHANGED << m_provision_callback, m_send_json_callback,
                    m_subscribe_topic_callback, m_unsubscribe_topic_callback,
                    reqs, slot_req, subscribed >>

\* Faulty variant: Initialize forgets the injected transport callbacks
Initialize_Resets ==
    /\ last' = Called("Initialize", DefaultCallback, EmptyDoc, NoRet, << >>)
    /\ m_send_json_callback' = NoCallback
    /\ m_subscribe_topic_callback' = NoCallback
    /\ m_unsubscribe_topic_callback' = NoCallback
    /\ UNCHANGED << m_provision_callback, reqs, slot_req, subscribed >>

\* Initialize, lines 126-128
Initialize ==
    /\ last' = Called("Initialize", DefaultCallback, EmptyDoc, NoRet, << >>)
    /\ UNCHANGED << m_provision_callback, m_send_json_callback,
                    m_subscribe_topic_callback, m_unsubscribe_topic_callback,
                    reqs, slot_req, subscribed >>

Next ==
    \/ \E t \in Transports : Set_Client_Callbacks(t)
    \/ \E callback \in Descriptors, sub_ok \in BOOLEAN, pub_ok \in BOOLEAN :
          Provision_Request(callback, sub_ok, pub_ok)
    \/ Process_Response
    \/ \E data \in ResponseDocs, unsub_ok \in BOOLEAN :
          Process_Json_Response(data, unsub_ok)
    \/ \E unsub_ok \in BOOLEAN : Unsubscribe(unsub_ok)
    \/ \E unsub_ok \in BOOLEAN : Resubscribe_Topic(unsub_ok)
    \/ loop
    \/ Initialize

Spec == Init /\ [][Next]_vars

\* The request builder alone: one request, over every combination of
\* null, empty and set optional fields
NextBuild ==
    \/ \E t \in Transports : Set_Client_Callbacks(t)
    \/ /\ reqs = << >>
       /\ \E callback \in AllDescriptors, sub_ok \in BOOLEAN, pub_ok \in BOOLEAN :
             Provision_Request(callback, sub_ok, pub_ok)

SpecBuild == Init /\ [][NextBuild]_vars

---------------------------------------------------------------------------
(* Vocabulary of the properties *)

Idle(slot) == slot.callback = NoHandler
Awaiting(slot) == slot.callback # NoHandler

\* The positions in the last call's collaborator calls of the calls of fn
CallsNamed(fn) == {n \in DOMAIN last.calls : last.calls[n].fn = fn}

IsRequest == last.op = "Provision_Request"
IsDispatch == last.op = "Process_Json_Response"

ArgKeyOrSecretEmpty ==
    \/ last.arg.device_key = NullPtr
    \/ last.arg.device_key = Ptr("")
    \/ last.arg.device_secret = NullPtr
    \/ last.arg.device_secret = Ptr("")

SubscribeSucceeded ==
    \E n \in CallsNamed("subscribe_topic") : last.calls[n].ok

SubscribeFailed ==
    \E n \in CallsNamed("subscribe_topic") : ~ last.calls[n].ok

PublishSucceeded ==
    \E n \in CallsNamed("send_json") : last.calls[n].ok

PublishFailed ==
    \E n \in CallsNamed("send_json") : ~ last.calls[n].ok

---------------------------------------------------------------------------
\* C1: a Provision_Request whose key or secret is null or empty returns
\* false, calls neither the subscribe nor the publish callback (it makes no
\* collaborator call at all) and leaves the slot exactly as it was, whether
\* the slot was Idle or Awaiting.
C1_InvalidRequestHasNoEffect ==
    (IsRequest /\ ArgKeyOrSecretEmpty) =>
        /\ last.ret = Ret(FALSE)
        /\ last.calls = << >>
        /\ m_provision_callback = last.pre

\* An empty secret with a set key, rejected while another request is pending
C1_Witness ==
    /\ IsRequest
    /\ last.arg.device_key = Ptr("abc")
    /\ last.arg.device_secret = Ptr("")
    /\ Awaiting(last.pre)
    /\ last.ret = Ret(FALSE)

\* C2: a Provision_Request with set key and secret whose subscribe callback
\* reports failure returns false, never calls the publish callback and
\* leaves the slot exactly as it was.
C2_SubscribeFailureRejects ==
    (IsRequest /\ ~ ArgKeyOrSecretEmpty /\ SubscribeFailed) =>
        /\ last.ret = Ret(FALSE)
        /\ CallsNamed("send_json") = {}
        /\ m_provision_callback = last.pre

\* A refused subscription while another request's handler is stored
C2_Witness ==
    /\ IsRequest
    /\ ~ ArgKeyOrSecretEmpty
    /\ SubscribeFailed
    /\ Awaiting(last.pre)
    /\ last.pre.callback # last.arg.callback
    /\ m_provision_callback = last.pre

\* The handlers a response dispatch ran, in order
IsHandlerCall(c) == c.fn = "provision_callback"

HandlersRun ==
    LET run == SelectSeq(last.calls, IsHandlerCall)
    IN  [n \in DOMAIN run |-> run[n].h]

\* The slot holds the descriptor of the latest request that was stored and
\* not cleared since
SlotHoldsLatestStored ==
    /\ slot_req = 0 => Idle(m_provision_callback)
    /\ slot_req # 0 =>
          /\ reqs[slot_req].stored
          /\ m_provision_callback.callback = reqs[slot_req].h
          /\ \A j \in DOMAIN reqs : j > slot_req => ~ reqs[j].stored

\* At a dispatch only the handler of the request that was pending ran, once
DispatchRunsPendingOnly ==
    IsDispatch =>
        /\ last.pre_req = 0 => HandlersRun = << >>
        /\ last.pre_req # 0 => HandlersRun = << reqs[last.pre_req].h >>

\* C3 as stated: once a request with set key and secret was submitted while
\* request i was pending, the handler of i is never invoked, and a dispatch
\* runs only the handler of the request that was pending.
C3_AsStated ==
    /\ \A i \in DOMAIN reqs : reqs[i].rival_valid => reqs[i].invoked = 0
    /\ DispatchRunsPendingOnly

\* C3 amended: once a request whose subscription succeeded was submitted
\* while request i was pending, the handler of i is never invoked; the slot
\* holds the latest stored request, and a dispatch runs only its handler.
C3_SupersededNeverInvoked ==
    /\ \A i \in DOMAIN reqs : reqs[i].rival_stored => reqs[i].invoked = 0
    /\ SlotHoldsLatestStored
    /\ DispatchRunsPendingOnly

\* Two stored requests with different handlers, then a response
C3_Witness ==
    /\ IsDispatch
    /\ Len(reqs) = 2
    /\ reqs[1].stored /\ reqs[1].rival_stored
    /\ reqs[1].h # reqs[2].h
    /\ reqs[1].invoked = 0
    /\ reqs[2].invoked = 1
    /\ last.pre_req = 2

\* C4: after every Process_Json_Response the slot is Idle (the default
\* callback), the unsubscribe callback was called exactly once in that
\* dispatch, as its last collaborator call, and a handler that was stored
\* was called before it, whatever the unsubscribe callback returned.
C4_DispatchClearsAndUnsubscribesOnce ==
    IsDispatch =>
        /\ m_provision_callback = DefaultCallback
        /\ Cardinality(CallsNamed("unsubscribe_topic")) = 1
        /\ last.calls[Len(last.calls)].fn = "unsubscribe_topic"
        /\ Awaiting(last.pre) =>
              /\ Len(last.calls) = 2
              /\ last.calls[1].fn = "provision_callback"
              /\ last.calls[1].h = last.pre.callback
              /\ last.calls[1].doc = last.data
        /\ Idle(last.pre) => Len(last.calls) = 1

\* A dispatch to a stored handler whose unsubscription fails
C4_Witness ==
    /\ IsDispatch
    /\ Awaiting(last.pre)
    /\ \E n \in CallsNamed("unsubscribe_topic") : ~ last.calls[n].ok
    /\ Idle(m_provision_callback)

\* C5: Provision_Request returns true exactly when the subscribe callback
\* and the publish callback both reported success, and false otherwise.
C5_ResultIffSubscribedAndPublished ==
    IsRequest =>
        /\ last.ret \in {Ret(TRUE), Ret(FALSE)}
        /\ last.ret = Ret(TRUE) <=> (SubscribeSucceeded /\ PublishSucceeded)
        /\ ArgKeyOrSecretEmpty => last.ret = Ret(FALSE)

\* A request that was subscribed and published
C5_Witness ==
    /\ IsRequest
    /\ last.ret = Ret(TRUE)
    /\ SubscribeSucceeded
    /\ PublishSucceeded

\* The optional members of the payload and the descriptor field of each
OptionalMembers ==
    { << "deviceName", "device_name" >>,
      << "token", "access_token" >>,
      << "username", "cred_username" >>,
      << "password", "cred_password" >>,
      << "clientId", "cred_client_id" >>,
      << "hash", "hash" >>,
      << "credentialsType", "credentials_type" >> }

IsSet(str) == str # NullPtr /\ str # Ptr("")

\* C6: the payload of a published request has exactly the members
\* provisionDeviceKey and provisionDeviceSecret and one member for each
\* optional field that is neither null nor empty, each with the
\* descriptor's value.
C6_PayloadIsSparse ==
    IsRequest =>
        \A n \in CallsNamed("send_json") :
            LET doc == last.calls[n].doc IN
            /\ DOMAIN doc =
                  {"provisionDeviceKey", "provisionDeviceSecret"} \cup
                  {m[1] : m \in {o \in OptionalMembers : IsSet(last.arg[o[2]])}}
            /\ doc["provisionDeviceKey"] = last.arg.device_key
            /\ doc["provisionDeviceSecret"] = last.arg.device_secret
            /\ \A m \in OptionalMembers :
                  m[1] \in DOMAIN doc => doc[m[1]] = last.arg[m[2]]

\* A published request with set, empty and null optional fields
C6_Witness ==
    /\ IsRequest
    /\ CallsNamed("send_json") # {}
    /\ last.arg.device_name = Ptr("dev1")
    /\ last.arg.access_token = Ptr("")
    /\ last.arg.cred_username = NullPtr
    /\ last.arg.cred_password = Ptr("pwd")
    /\ last.arg.cred_client_id = Ptr("")
    /\ last.arg.hash = Ptr("h4sh")
    /\ last.arg.credentials_type = Ptr("X509_CERTIFICATE")
    /\ \A n \in CallsNamed("send_json") :
          DOMAIN last.calls[n].doc =
              {"provisionDeviceKey", "provisionDeviceSecret", "deviceName",
               "password", "hash", "credentialsType"}

\* C7: when the subscription of a request succeeds and its publish fails,
\* Provision_Request returns false, the slot is Awaiting with that request's
\* descriptor, the call made no unsubscribe call, and a response dispatched
\* while that request is still pending runs its handler.
C7_PublishFailureKeepsRegistration ==
    /\ (IsRequest /\ SubscribeSucceeded /\ PublishFailed) =>
          /\ last.ret = Ret(FALSE)
          /\ m_provision_callback = last.arg
          /\ Awaiting(m_provision_callback)
          /\ CallsNamed("unsubscribe_topic") = {}
          /\ slot_req = Len(reqs)
    /\ \A i \in DOMAIN reqs :
          (reqs[i].stored /\ ~ reqs[i].ret /\ slot_req = i) =>
              /\ Awaiting(m_provision_callback)
              /\ m_provision_callback.callback = reqs[i].h
    /\ (IsDispatch /\ last.pre_req # 0) =>
          (~ reqs[last.pre_req].ret =>
              /\ HandlersRun = << reqs[last.pre_req].h >>
              /\ reqs[last.pre_req].invoked = 1)

\* A response dispatched to the handler of a request reported as failed
C7_Witness ==
    /\ IsDispatch
    /\ last.pre_req # 0
    /\ reqs[last.pre_req].stored
    /\ ~ reqs[last.pre_req].ret
    /\ reqs[last.pre_req].invoked = 1
    /\ HandlersRun = << reqs[last.pre_req].h >>

\* C8: every subscribe and unsubscribe call is made with
\* "/provision/response" and every publish call with "/provision/request".
C8_FixedChannels ==
    \A n \in DOMAIN last.calls :
        /\ last.calls[n].fn \in {"subscribe_topic", "unsubscribe_topic"} =>
              last.calls[n].topic = "/provision/response"
        /\ last.calls[n].fn = "send_json" =>
              last.calls[n].topic = "/provision/request"

\* A request that subscribed and published
C8_Witness ==
    /\ IsRequest
    /\ CallsNamed("subscribe_topic") # {}
    /\ CallsNamed("send_json") # {}
    /\ \A n \in CallsNamed("send_json") :
          last.calls[n].topic = "/provision/request"

\* C9: the slot is Idle after construction; it goes from Idle to Awaiting
\* only in a Provision_Request whose subscribe callback succeeded, and every
\* such request leaves it Awaiting; it goes from Awaiting to Idle only in
\* Process_Json_Response, Unsubscribe and Resubscribe_Topic, each of which
\* leaves it Idle; a request that was rejected, Process_Response, Initialize,
\* loop and Set_Client_Callbacks leave the slot as it was.
C9_SlotStateMachine ==
    /\ last.op = "Provision" => Idle(m_provision_callback)
    /\ (Idle(last.pre) /\ Awaiting(m_provision_callback)) =>
          (IsRequest /\ SubscribeSucceeded)
    /\ (Awaiting(last.pre) /\ Idle(m_provision_callback)) =>
          last.op \in {"Process_Json_Response", "Unsubscribe",
                       "Resubscribe_Topic"}
    /\ (IsRequest /\ SubscribeSucceeded) => Awaiting(m_provision_callback)
    /\ last.op \in {"Process_Json_Response", "Unsubscribe",
                    "Resubscribe_Topic"} => Idle(m_provision_callback)
    /\ (IsRequest /\ ~ SubscribeSucceeded) => m_provision_callback = last.pre
    /\ last.op \in {"Process_Response", "Initialize", "loop",
                    "Set_Client_Callbacks"} =>
          m_provision_callback = last.pre

\* A pending request cleared by Resubscribe_Topic
C9_Witness ==
    /\ last.op = "Resubscribe_Topic"
    /\ Awaiting(last.pre)
    /\ Idle(m_provision_callback)

\* C10: in one Provision_Request the subscribe callback is called at most
\* once, first, on the response channel; the publish callback is called at
\* most once, right after a subscribe call that succeeded, and when it is
\* called the slot already holds this request's descriptor.
C10_SubscribeBeforePublish ==
    IsRequest =>
        /\ Cardinality(CallsNamed("subscribe_topic")) <= 1
        /\ Cardinality(CallsNamed("send_json")) <= 1
        /\ \A n \in CallsNamed("subscribe_topic") :
              n = 1 /\ last.calls[n].topic = "/provision/response"
        /\ \A n \in CallsNamed("send_json") :
              /\ n = 2
              /\ last.calls[1].fn = "subscribe_topic"
              /\ last.calls[1].ok
              /\ last.calls[n].slot = last.arg
              /\ last.calls[n].slot.callback = last.arg.callback

\* A published request that replaced another request's descriptor
C10_Witness ==
    /\ IsRequest
    /\ CallsNamed("send_json") = {2}
    /\ Awaiting(last.pre)
    /\ last.pre.callback # last.arg.callback
    /\ last.calls[2].slot.callback = last.arg.callback

\* C11: Unsubscribe leaves the slot Idle (the default callback), calls the
\* unsubscribe callback exactly once, on "/provision/response", makes no
\* other collaborator call and returns what that callback returned; the
\* slot is Idle also when the callback returned false.
C11_UnsubscribeResetsAndReports ==
    last.op = "Unsubscribe" =>
        /\ m_provision_callback = DefaultCallback
        /\ Len(last.calls) = 1
        /\ last.calls[1].fn = "unsubscribe_topic"
        /\ last.calls[1].topic = "/provision/response"
        /\ last.ret = Ret(last.calls[1].ok)

\* A failed unsubscription that discards a pending handler
C11_Witness ==
    /\ last.op = "Unsubscribe"
    /\ Awaiting(last.pre)
    /\ last.ret = Ret(FALSE)
    /\ Idle(m_provision_callback)

\* C12: a response dispatched while the slot is Idle runs no handler and
\* leaves the slot Idle, and still calls the unsubscribe callback once, on
\* "/provision/response".
C12_IdleDispatchRunsNothing ==
    (IsDispatch /\ Idle(last.pre)) =>
        /\ CallsNamed("provision_callback") = {}
        /\ Idle(m_provision_callback)
        /\ Len(last.calls) = 1
        /\ last.calls[1].fn = "unsubscribe_topic"
        /\ last.calls[1].topic = "/provision/response"

\* A response dispatched before any request was made
C12_Witness ==
    /\ IsDispatch
    /\ Idle(last.pre)
    /\ reqs = << >>
    /\ CallsNamed("unsubscribe_topic") = {1}

\* The member functions that may clear or replace a stored descriptor
CallClears ==
    last.op \in {"Process_Json_Response", "Unsubscribe", "Resubscribe_Topic"}

\* C13: a descriptor stored in the slot stays there, and belongs to the same
\* request, across every step that is no response dispatch, no Unsubscribe,
\* no Resubscribe_Topic and no Provision_Request whose subscription
\* succeeded; requests rejected for invalid credentials or a refused
\* subscription, Process_Response, Initialize, loop and Set_Client_Callbacks
\* are among those steps, and the component takes no step of its own.
C13_PendingStaysUntilCleared ==
    [][ (/\ Awaiting(m_provision_callback)
         /\ ~ CallClears'
         /\ ~ (IsRequest' /\ SubscribeSucceeded'))
        => /\ m_provision_callback' = m_provision_callback
           /\ slot_req' = slot_req
           /\ slot_req \in DOMAIN reqs
           /\ reqs'[slot_req].invoked = reqs[slot_req].invoked ]_vars

\* A stored request that outlived a request refused by the transport
C13_Witness ==
    /\ IsRequest
    /\ SubscribeFailed
    /\ Len(reqs) = 2
    /\ reqs[1].stored
    /\ slot_req = 1
    /\ m_provision_callback.callback = reqs[1].h
    /\ m_provision_callback = last.pre

\* C14: Resubscribe_Topic does what Unsubscribe does: it leaves the slot
\* Idle, makes the one unsubscribe call on "/provision/response" that
\* Unsubscribe makes, returns what Unsubscribe returns, and never calls the
\* subscribe callback.
C14_ResubscribeIsUnsubscribe ==
    last.op = "Resubscribe_Topic" =>
        /\ Len(last.calls) = 1
        /\ last.calls[1].fn = "unsubscribe_topic"
        /\ last.calls[1].topic = "/provision/response"
        /\ CallsNamed("subscribe_topic") = {}
        /\ m_provision_callback = DefaultCallback
        /\ last.ret = Ret(last.calls[1].ok)
        /\ LET same == Unsubscribe_Body(last.calls[1].ok)
           IN  /\ m_provision_callback = same.slot
               /\ last.calls = same.calls
               /\ last.ret = Ret(same.ret)
        /\ slot_req = 0
        /\ ~ subscribed

\* Resubscribe_Topic with a pending request and a failing unsubscription
C14_Witness ==
    /\ last.op = "Resubscribe_Topic"
    /\ Awaiting(last.pre)
    /\ last.ret = Ret(FALSE)
    /\ CallsNamed("unsubscribe_topic") = {1}

\* C15: Process_Response and Initialize change neither the slot nor the
\* stored transport callbacks and make no collaborator call (no handler, no
\* subscribe, unsubscribe or publish).
C15_RawPayloadAndInitializeAreNoOps ==
    [][ last'.op \in {"Process_Response", "Initialize"} =>
          /\ m_provision_callback' = m_provision_callback
          /\ m_send_json_callback' = m_send_json_callback
          /\ m_subscribe_topic_callback' = m_subscribe_topic_callback
          /\ m_unsubscribe_topic_callback' = m_unsubscribe_topic_callback
          /\ last'.calls = << >>
          /\ reqs' = reqs ]_vars

\* A raw payload delivered while a request is pending
C15_Witness ==
    /\ last.op = "Process_Response"
    /\ Awaiting(m_provision_callback)
    /\ CallbacksSet
    /\ last.calls = << >>

\* The number of requests stored in the slot so far
StoredSoFar == Cardinality({i \in DOMAIN reqs : reqs[i].stored})

RECURSIVE InvokedUpTo(_)
InvokedUpTo(n) == IF n = 0 THEN 0 ELSE reqs[n].invoked + InvokedUpTo(n - 1)

\* C16: a caller handler runs only inside Process_Json_Response, at most one
\* per dispatch, and it is the handler of the request that was stored; the
\* handler of a request runs at most once, and only if the request was
\* stored; a dispatch that directly follows a dispatch runs no handler.
C16_AtMostOneInvocationPerAcceptance ==
    /\ [](/\ CallsNamed("provision_callback") # {} => IsDispatch
          /\ Len(HandlersRun) <= 1
          /\ (IsDispatch /\ HandlersRun # << >>) =>
                /\ last.pre_req \in DOMAIN reqs
                /\ HandlersRun = << reqs[last.pre_req].h >>
          /\ \A i \in DOMAIN reqs :
                reqs[i].invoked <= IF reqs[i].stored THEN 1 ELSE 0
          /\ InvokedUpTo(Len(reqs)) <= StoredSoFar)
    /\ [][ /\ (IsDispatch /\ IsDispatch') => HandlersRun' = << >>
           /\ InvokedUpTo(Len(reqs))' > InvokedUpTo(Len(reqs)) =>
                 (IsDispatch' /\ Awaiting(m_provision_callback)) ]_vars

\* A second response right after the response that answered a request
C16_Witness ==
    /\ IsDispatch
    /\ Idle(last.pre)
    /\ last.pre_req = 0
    /\ HandlersRun = << >>
    /\ \E i \in DOMAIN reqs : reqs[i].stored /\ reqs[i].invoked = 1

\* C17: whenever the slot is Awaiting, a subscribe call on the response
\* channel succeeded and no unsubscribe call was made since; the slot is
\* populated only after the subscribe call (which sees the slot as it was
\* before the request) and is already cleared when the unsubscribe callback
\* is called.
C17_AwaitingImpliesSubscribed ==
    /\ Awaiting(m_provision_callback) => subscribed
    /\ \A n \in CallsNamed("unsubscribe_topic") :
          /\ last.calls[n].slot = DefaultCallback
          /\ last.calls[n].topic = "/provision/response"
    /\ \A n \in CallsNamed("subscribe_topic") :
          /\ last.calls[n].slot = last.pre
          /\ last.calls[n].topic = "/provision/response"
          /\ (~ last.calls[n].ok) => m_provision_callback = last.pre

\* A pending request whose subscription is in place, and an Idle slot whose
\* subscription is in place, are both reached: here the former, after a
\* second request was refused by the transport
C17_Witness ==
    /\ Awaiting(m_provision_callback)
    /\ subscribed
    /\ IsRequest
    /\ SubscribeFailed

====
